---------------------------- MODULE Spec2Model ----------------------------
(***************************************************************************)
(* Model of the urbanity-map batch pipeline (scripts/*.py).                *)
(*                                                                         *)
(* The state machines below share one set of variables; each leaves the   *)
(* variables of the others at rest:                                        *)
(*   SpecNorm  - the per-layer log / min-max normalizer of                 *)
(*               process_night_lights.py, process_poi.py and               *)
(*               process_population.py, applied to drawn raw aggregates;   *)
(*   SpecRemap - adjust_score_distribution of integrate_scores.py applied  *)
(*               to pairs of grid points of [0,100];                       *)
(*   Spec      - process_tax.py and integrate_scores.py acting on the      *)
(*               files of frontend/public/data;                            *)
(*   SpecWeather - process_weather.py on drawn station tables;             *)
(*   SpecSchema  - one stage resolving the region-code field;              *)
(*   SpecFill    - the ward-fallback loop of process_tax.py on a drawn     *)
(*               table and feature order;                                  *)
(*   SpecPopulation - process_population.py and                            *)
(*               process_census_population.py, in either order;            *)
(*   SpecTaxRows - process_tax.py from the rows of the CSV on;             *)
(*   SpecPoint   - process_poi.py (with its cache) and                     *)
(*               process_land_price.py on drawn points.                    *)
(*                                                                         *)
(* Numbers.  Scores are held in tenths (100.0 is 1000).  Raw aggregates    *)
(* are held in units of 0.0005, so the 0.001 floor of the normalizers is   *)
(* 2 units.  Logarithms are held in units of 1e-5, rounded down.           *)
(***************************************************************************)
EXTENDS Integers, Sequences, FiniteSets

VARIABLES
    \* --- normalizer machine
    layer,        \* which normalizer runs: "night_light", "poi", "population"
    raw,          \* the raw per-region aggregates, a sequence (units of 0.0005)
    normalized,   \* the scores computed from raw (tenths), <<>> before the run
    \* --- remap machine
    remapIn,      \* a pair <<a, b>> of grid points, a <= b
    remapOut,     \* the pair of remapped values, <<>> before the run
    \* --- pipeline machine: the files of frontend/public/data
    nlFile,       \* urbanity-score.json
    popFile,      \* population-score.json
    poiFile,      \* poi-score.json
    lpFile,       \* land_price.json
    popRawFile,   \* population-data.json
    demoFile,     \* demographics.json
    weatherFile,  \* weather-data.json
    taxCsv,       \* the rows of the tax table that pass the row filters
    taxFile,      \* tax_income.json
    outJson,      \* urbanity-score-v2.json
    outGeo,       \* japan-with-scores-v2.geojson
    validCodes,   \* valid_codes of the last integrate_scores.py run
    uBasedFlip,   \* which svd_flip convention the installed PCA uses
    exitStatus,   \* status of the last integrate_scores.py run, -1 before any
    boundary,     \* N03-21_210101.json: whether it exists, its columns
    matrixX,      \* the matrix X of the last integrate_scores.py run
    weights_normalized,  \* the weight vector of the last run (num over den)
    weightLine,   \* the four weights printed after the fit (hundredths)
    summaryLine,  \* the weights printed in the closing summary (hundredths)
    \* --- weather machine: process_weather.py
    metaSources,  \* the station rows of smaster.index, ame_master, snow_master
    weather_df,   \* the readings per station, after the groupby
    name_lookup,  \* station name -> coordinates, <<>> before the run
    \* --- code-field machine: one stage resolving the region-code field
    stage,        \* the stage that runs
    gdfColumns,   \* the columns of the polygon collection it reads
    outcome,      \* [exit, wrote] of the stage, <<>> before the run
    \* --- ward-fallback machine: the fill loop of process_tax.py
    fillOwn,      \* result before the loop: own average income by code
    fillFeatures, \* geojson['features'], in file order
    filled,       \* result after the loop, Absent before the run
    \* --- population machine: process_population.py and
    \*     process_census_population.py writing popFile and popRawFile
    meshFiles,    \* the files of data/population_mesh, in glob order
    censusFile,   \* the rows of b01_01.xlsx, or Absent
    final_agg,    \* total_pop per region code of the mesh stage, or Absent
    stagesRun,    \* the population stages that have run, in order
    \* --- tax-table machine: the row loop of process_tax.py writing taxFile
    taxRows,      \* the rows of the tax CSV after the three header rows
    taxErrors,    \* the row numbers of the printed "Error processing row"
    \* --- point machine: process_poi.py writing poiFile and
    \*     process_land_price.py writing lpFile
    osmSource,    \* japan-latest.osm.pbf: absent, unreadable, or its nodes
    poiCache,     \* interm_poi.parquet: the cached sample table, or Absent
    poiDf,        \* the sample table df of the last process_poi.py run
    parsedSource, \* whether the last run called handler.apply_file
    poiRuns,      \* number of process_poi.py runs so far
    poiExit,      \* exit status of the last process_poi.py run, -1 before
    joined,       \* the spatial join of the last run: point index, code
    poi_count,    \* merged['poi_count'] of the last run, per feature
    landFile,     \* L01-25.geojson: the survey points, or Absent
    lpJoined      \* the spatial join of process_land_price.py, Null before

normVars  == <<layer, raw, normalized>>
remapVars == <<remapIn, remapOut>>
pipeVars  == <<nlFile, popFile, poiFile, lpFile, popRawFile, demoFile,
               weatherFile, taxCsv, taxFile, outJson, outGeo, validCodes,
               uBasedFlip, exitStatus, boundary, matrixX, weights_normalized,
               weightLine, summaryLine>>
weatherVars == <<metaSources, weather_df, name_lookup>>
schemaVars  == <<stage, gdfColumns, outcome>>
fillVars    == <<fillOwn, fillFeatures, filled>>
meshVars    == <<meshFiles, censusFile, final_agg, stagesRun>>
rowVars     == <<taxRows, taxErrors>>
pointVars   == <<osmSource, poiCache, poiDf, parsedSource, poiRuns, poiExit,
                 joined, poi_count, landFile, lpJoined>>
stageVars   == <<fillVars, meshVars, rowVars, pointVars>>
vars == <<normVars, remapVars, pipeVars, weatherVars, schemaVars, stageVars>>

-----------------------------------------------------------------------------
(* Helpers on finite sets and sequences of integers.                       *)

SetMin(S) == CHOOSE x \in S : \A y \in S : x <= y
SetMax(S) == CHOOSE x \in S : \A y \in S : x >= y
Range(s)  == {s[i] : i \in DOMAIN s}

\* numpy's .round(1) of num/den*100 expressed in tenths: round half to even.
\* num >= 0, den > 0.
RoundHalfEven(num, den) ==
    LET q == num \div den
        r == num % den
    IN  IF 2 * r < den THEN q
        ELSE IF 2 * r > den THEN q + 1
        ELSE IF q % 2 = 0 THEN q ELSE q + 1

-----------------------------------------------------------------------------
(* The per-layer normalizer.                                               *)

\* Size of the largest drawn layer.
MaxNormRegions == 3

\* 0.001 in raw units of 0.0005.
FloorUnits == 2

\* Raw aggregates a layer can hold: 0, 0.0005, 0.001, 1.0, 100.0; a mean
\* radiance can also be negative (-1.0), a density or a head count cannot.
RawValues(l) ==
    {0, 1, 2, 2000, 200000} \cup (IF l = "night_light" THEN {-2000} ELSE {})

\* np.where(x > 0, x, 0.001)
FloorPositive(x) == IF x > 0 THEN x ELSE FloorUnits

\* np.log10(x + 1) for the raw values above, in units of 1e-5, rounded down.
Log10Plus1(x) ==
    CASE x = 1      -> 21
      [] x = 2      -> 43
      [] x = 3      -> 65
      [] x = 2000   -> 30102
      [] x = 4000   -> 47712
      [] x = 6000   -> 60205
      [] x = 8000   -> 69897
      [] x = 20000  -> 104139
      [] x = 200000 -> 200432

\* Mutant of MinMaxScore: a layer without spread is scored 100 throughout.
MinMaxScoreFlatHundred(logs) ==
    LET lo == SetMin(Range(logs))
        hi == SetMax(Range(logs))
    IN  IF hi > lo
        THEN [i \in DOMAIN logs |->
                 RoundHalfEven((logs[i] - lo) * 1000, hi - lo)]
        ELSE [i \in DOMAIN logs |-> 1000]

\* Min-max scaling to 0-100 rounded to one decimal, zeros when max = min.
MinMaxScore(logs) ==
    LET lo == SetMin(Range(logs))
        hi == SetMax(Range(logs))
    IN  IF hi > lo
        THEN [i \in DOMAIN logs |->
                 RoundHalfEven((logs[i] - lo) * 1000, hi - lo)]
        ELSE [i \in DOMAIN logs |-> 0]

\* floor, log, min-max: the body shared by the three stage scripts.
LogMinMaxScore(vals) ==
    MinMaxScore([i \in DOMAIN vals |-> Log10Plus1(FloorPositive(vals[i]))])

NightLightScores(means) == LogMinMaxScore(means)
PoiScores(density)      == LogMinMaxScore(density)
PopulationScores(total) == LogMinMaxScore(total)

NormInit ==
    /\ layer \in {"night_light", "poi", "population"}
    /\ raw \in UNION {[1..n -> RawValues(layer)] : n \in 1..MaxNormRegions}
    /\ normalized = <<>>

Normalize ==
    /\ normalized = <<>>
    /\ normalized' = CASE layer = "night_light" -> NightLightScores(raw)
                       [] layer = "poi"         -> PoiScores(raw)
                       [] layer = "population"  -> PopulationScores(raw)
    /\ UNCHANGED <<layer, raw>>

-----------------------------------------------------------------------------
(* adjust_score_distribution: the piecewise-linear remap of [0,100].       *)
(* A score is the rational num/den (den > 0); the remapped score is        *)
(* returned as the numerator of a fraction over RemapScale * den, so that  *)
(* the three slopes 25/40, 50/45 and 25/15 stay exact.                     *)

\* Grid points per unit of score in the remap machine.
RemapGrid == 2

\* Common denominator of the slopes 5/8, 10/9 and 5/3.
RemapScale == 72

\* score * (25 / 40)
RemapLow(num, den) == 45 * num
\* Mutant of RemapMid: the middle segment starts at 30 instead of 25.
RemapMidOffset30(num, den) == 30 * RemapScale * den + (num - 40 * den) * 80
\* 25 + (score - 40) * (50 / 45)
RemapMid(num, den) == 25 * RemapScale * den + (num - 40 * den) * 80
\* Mutant of RemapHigh: the top segment climbs by 25/10 instead of 25/15.
RemapHighSteep(num, den) == 75 * RemapScale * den + (num - 85 * den) * 180
\* 75 + (score - 85) * (25 / 15)
RemapHigh(num, den) == 75 * RemapScale * den + (num - 85 * den) * 120

adjust_score_distribution(num, den) ==
    IF num < 40 * den THEN RemapLow(num, den)
    ELSE IF num < 85 * den THEN RemapMid(num, den)
    ELSE RemapHigh(num, den)

GridPoints == 0..(100 * RemapGrid)

RemapInit ==
    /\ remapIn \in {p \in GridPoints \X GridPoints : p[1] <= p[2]}
    /\ remapOut = <<>>

\* np.vectorize(adjust_score_distribution) over the two scores.
ApplyRemap ==
    /\ remapOut = <<>>
    /\ remapOut' = <<adjust_score_distribution(remapIn[1], RemapGrid),
                     adjust_score_distribution(remapIn[2], RemapGrid)>>
    /\ UNCHANGED remapIn

-----------------------------------------------------------------------------
(* The files of the pipeline.                                              *)
(* A region code is the sequence of its digits.  A JSON value is <<>> for  *)
(* null, <<v>> for the number v and <<0, 0>> for NaN (the quotient 0/0).    *)
(* A file is [exists, data]: data maps region codes to values.             *)

Null   == <<>>
NaN    == <<0, 0>>
Num(v) == <<v>>
IsNum(x) == Len(x) = 1

CodeA  == <<0, 1, 1, 0, 1>>
CodeB  == <<0, 1, 1, 1, 0>>
CodeC  == <<0, 1, 1, 1, 1>>
CityAB == <<0, 1, 1, 0, 0>>

\* The features of the boundary file N03-21_210101.json, in file order.
Features == <<CodeA, CodeB, CodeC>>

\* The names tried for the region-code field, in the order they are tried.
CodeFieldCandidates == <<"N03_007", "code", "id", "JCODE">>

\* for col in [...]: if col in gdf.columns: code_col = col; break
\* "none" stands for None.
CodeCol(columns) ==
    IF \E i \in DOMAIN CodeFieldCandidates : CodeFieldCandidates[i] \in columns
    THEN CodeFieldCandidates[
             CHOOSE i \in DOMAIN CodeFieldCandidates :
                 /\ CodeFieldCandidates[i] \in columns
                 /\ \A j \in 1..(i - 1) : CodeFieldCandidates[j] \notin columns]
    ELSE "none"

\* The boundary file: missing, with the usual N03 columns, with the code
\* under JCODE only, or with no column of a candidate name.
AbsentBoundary == [exists |-> FALSE, columns |-> {}]
UsualBoundary  == [exists |-> TRUE, columns |-> {"N03_001", "N03_007"}]
BoundaryFiles ==
    {UsualBoundary,
     [exists |-> TRUE, columns |-> {"N03_001", "JCODE"}],
     [exists |-> TRUE, columns |-> {"N03_001"}]}

Absent == [exists |-> FALSE, data |-> <<>>]
File(d) == [exists |-> TRUE, data |-> d]
Keys(f) == DOMAIN f.data

\* dict.get(code, default) on a loaded file; a missing file loads as {}.
Get(f, code, default) == IF code \in Keys(f) THEN f.data[code] ELSE default

\* The score file a stage writes: one entry per row, keyed by the row's code.
ScoreFile(codes, scores) ==
    File([c \in Range(codes) |->
            scores[CHOOSE i \in DOMAIN codes : codes[i] = c]])

\* urbanity-score.json as process_night_lights.py leaves it: every feature,
\* scored from its mean radiance.  CodeC is a dark region in every draw.
NightLightFiles ==
    {ScoreFile(Features, NightLightScores(m)) :
        m \in {<<0, 0, 0>>, <<200000, 0, 0>>, <<200000, 200000, 0>>}}

\* poi-score.json as process_poi.py leaves it: every feature, scored from
\* its density.
PoiFiles ==
    {ScoreFile(Features, PoiScores(d)) : d \in {<<0, 2000, 0>>}}

\* population-score.json as process_population.py leaves it: the regions
\* that contain a mesh centroid.
PopulationFiles ==
    {ScoreFile(<<CodeA>>, PopulationScores(<<2000>>)),
     ScoreFile(<<CodeA, CodeB>>, PopulationScores(<<2000, 200000>>))}

\* land_price.json as process_land_price.py leaves it: the mean price
\* (yen per square metre) of the regions that contain a survey point.
LandPriceFiles ==
    {File([c \in {CodeB} |-> 445000]),
     File([c \in {CodeA, CodeB} |-> IF c = CodeA THEN 50000 ELSE 445000])}

\* population-data.json, demographics.json, weather-data.json: head count,
\* growth (hundredths of a percent), elderly ratio, maximum temperature
\* (tenths of a degree) and snow depth of the regions the source covers.
AuxiliaryFiles ==
    {<<Absent, Absent, Absent>>,
     <<File([c \in {CodeA} |-> [count |-> 120000, score |-> 0]]),
       File([c \in {CodeA} |-> [pop_growth |-> Num(-120), elderly_ratio |-> Null]]),
       File([c \in {CodeA} |-> [max_temp |-> Num(351), max_snow |-> Null]])>>}

\* The tax table after the row filters of process_tax.py: average income
\* (yen) by 5-digit code.  The table lists cities, not always their wards.
TaxTables ==
    {[c \in {CityAB} |-> 3200000],
     [c \in {CityAB, CodeB} |-> IF c = CodeB THEN 2900000 ELSE 3200000]}

-----------------------------------------------------------------------------
(* integrate_scores.py: the fusion.                                        *)

\* Lexicographic order of two codes of equal length (Python's str order).
RECURSIVE CodeLess(_, _)
CodeLess(x, y) ==
    IF x = <<>> \/ y = <<>> THEN x = <<>> /\ y # <<>>
    ELSE IF Head(x) # Head(y) THEN Head(x) < Head(y)
    ELSE CodeLess(Tail(x), Tail(y))

\* sorted(all_codes)
RECURSIVE Sorted(_)
Sorted(S) ==
    IF S = {} THEN <<>>
    ELSE LET m == CHOOSE x \in S : \A y \in S \ {x} : CodeLess(x, y)
         IN  <<m>> \o Sorted(S \ {m})

\* The orders in which Python can iterate over a set of strings: the order
\* follows the per-process string hash seed, so any order can come up.
IterationOrders(S) ==
    {o \in [1..Cardinality(S) -> S] : \A i, j \in DOMAIN o : i # j => o[i] # o[j]}

\* np.log1p of a score (tenths) and of a land price (yen), units of 1e-5.
Log1pScore(t) ==
    CASE t = 0    -> 0
      [] t = 1000 -> 461512
Log1pPrice(y) ==
    CASE y = 0      -> 0
      [] y = 50000  -> 1081979
      [] y = 445000 -> 1300583

\* Mutant of AllCodes: the keys of the population layer are not added.
AllCodesWithoutPopulation(nl, pop, poi, lp) ==
    Keys(nl) \cup Keys(poi) \cup Keys(lp)

\* all_codes: the union of the keys of the four layers.
AllCodes(nl, pop, poi, lp) == Keys(nl) \cup Keys(pop) \cup Keys(poi) \cup Keys(lp)

\* The four fused values of a code, a missing entry read as 0.0.
LayerValues(nl, pop, poi, lp, code) ==
    <<Get(nl, code, 0), Get(pop, code, 0), Get(poi, code, 0), Get(lp, code, 0)>>

\* Mutant of IsValid: the land-price column is left out of the test.
IsValidWithoutPrice(v) == v[1] > 0 \/ v[2] > 0 \/ v[3] > 0
\* if nl > 0 or pop > 0 or poi > 0 or lp > 0
IsValid(v) == v[1] > 0 \/ v[2] > 0 \/ v[3] > 0 \/ v[4] > 0

\* valid_codes: the sorted codes whose row enters the matrix X.
ValidCodes(nl, pop, poi, lp) ==
    SelectSeq(Sorted(AllCodes(nl, pop, poi, lp)),
              LAMBDA c : IsValid(LayerValues(nl, pop, poi, lp, c)))

\* The row of X of a valid code.
MatrixRow(v) ==
    <<Log1pScore(v[1]), Log1pScore(v[2]), Log1pScore(v[3]), Log1pPrice(v[4])>>

Sign(x) == IF x > 0 THEN 1 ELSE IF x < 0 THEN -1 ELSE 0

\* StandardScaler().fit_transform(X): every column to zero mean and unit
\* variance, a constant column to zeros.  With one row every column is
\* constant; with two rows a column with spread d has mean at the midpoint
\* and deviation |d|/2, so its two entries are -sign(d) and sign(d).
\* Matrices of three rows and more are outside this model.
StandardScale(X) ==
    CASE Len(X) = 1 -> <<[k \in 1..4 |-> 0]>>
      [] Len(X) = 2 ->
            LET s == [k \in 1..4 |-> Sign(X[2][k] - X[1][k])]
            IN  <<[k \in 1..4 |-> -s[k]], s>>

\* PCA(n_components=1).fit_transform(X_scaled).flatten(), up to a positive
\* factor (the min-max rescale that follows removes it).  The scaled matrix
\* has rank at most one: its rows are -s and s, the component is s/|s| up to
\* sign and the projections are -|s| and |s| up to that sign.  svd_flip
\* settles the sign: on the projections (the entry of largest magnitude,
\* the first on a tie, is made positive) when u-based, on the loadings (the
\* first nonzero loading is made positive) when v-based.
PcaScores(Z, uBased) ==
    CASE Len(Z) = 1 -> <<0>>
      [] Len(Z) = 2 ->
            LET s  == Z[2]
                q  == s[1] * s[1] + s[2] * s[2] + s[3] * s[3] + s[4] * s[4]
                k  == CHOOSE i \in 1..4 : s[i] # 0 /\ \A j \in 1..(i - 1) : s[j] = 0
                sg == IF uBased THEN -1 ELSE s[k]
            IN  IF q = 0 THEN <<0, 0>> ELSE <<-sg * q, sg * q>>

\* X as the loop leaves it: one row per valid code, every entry a number.
BuildX(nl, pop, poi, lp) ==
    LET valid == ValidCodes(nl, pop, poi, lp)
    IN  [i \in DOMAIN valid |->
            LET row == MatrixRow(LayerValues(nl, pop, poi, lp, valid[i]))
            IN  [k \in 1..4 |-> Num(row[k])]]

Abs(x) == IF x < 0 THEN -x ELSE x

\* Whether the scaled matrix is the zero matrix (one row, or equal rows).
IsZeroMatrix(Z) == \A i \in DOMAIN Z : \A k \in 1..4 : Z[i][k] = 0

\* pca.components_[0] up to a positive factor.  With rows -s and s the
\* component is s or -s.  The zero matrix has no preferred direction: its
\* SVD has the identity as right factor, so the component is the first axis.
Component(Z) ==
    IF IsZeroMatrix(Z) THEN <<1, 0, 0, 0>>
    ELSE Z[Len(Z)]

\* weights = np.abs(pca.components_[0]); weights / np.sum(weights)
\* held as four numerators over one denominator.
WeightsNormalized(Z) ==
    LET w == [k \in 1..4 |-> Abs(Component(Z)[k])]
    IN  [num |-> w, den |-> w[1] + w[2] + w[3] + w[4]]

\* f"{w:.2f}": the weight in hundredths.
FormatTwoDecimals(num, den) == RoundHalfEven(num * 100, den)

\* The line printed after the fit: night light, population, POI, land price.
WeightLine(w) == [k \in 1..4 |-> FormatTwoDecimals(w.num[k], w.den)]
\* The line of the closing summary: night light, population, POI.
SummaryLine(w) == [k \in 1..3 |-> FormatTwoDecimals(w.num[k], w.den)]

Sum(u) == IF Len(u) = 1 THEN u[1] ELSE u[1] + u[2]
Dot(u, v) == IF Len(u) = 1 THEN u[1] * v[1] ELSE u[1] * v[1] + u[2] * v[2]
IsConstant(u) == \A i, j \in DOMAIN u : u[i] = u[j]

\* np.corrcoef(u, v)[0, 1]: NaN when either series has no spread, else a
\* number whose sign is that of the covariance.
CorrIsNaN(u, v) == IsConstant(u) \/ IsConstant(v)
CorrSign(u, v) == Sign(Len(u) * Dot(u, v) - Sum(u) * Sum(v))

\* if correlation < 0: pca_scores = -pca_scores   (NaN < 0 is False)
SignCorrect(p, base) ==
    IF ~CorrIsNaN(p, base) /\ CorrSign(p, base) < 0
    THEN [i \in DOMAIN p |-> -p[i]]
    ELSE p

\* (pca_scores - min) / (max - min) * 100, the remap and round(score, 1).
\* With max = min the quotient is 0/0: NaN, which fails both comparisons
\* of the remap and leaves its last branch as NaN.
FinalScore(p, i) ==
    LET lo  == SetMin(Range(p))
        hi  == SetMax(Range(p))
        den == hi - lo
        num == (p[i] - lo) * 100
    IN  IF den = 0 THEN NaN
        ELSE Num(RoundHalfEven(adjust_score_distribution(num, den) * 10,
                               RemapScale * den))

\* score_map: the composite score of every valid code.
ScoreMap(nl, pop, poi, lp, uBased) ==
    LET valid == ValidCodes(nl, pop, poi, lp)
        X     == [i \in DOMAIN valid |->
                     MatrixRow(LayerValues(nl, pop, poi, lp, valid[i]))]
        p0    == PcaScores(StandardScale(X), uBased)
        p     == SignCorrect(p0, [i \in DOMAIN X |-> X[i][1]])
    IN  [c \in Range(valid) |->
            FinalScore(p, CHOOSE i \in DOMAIN valid : valid[i] = c)]

\* The record integrate_scores.py stores for one code.  The layer scores
\* are already rounded to one decimal by the stages that wrote them.
CompositeRecord(code, scoreMap, nl, pop, poi, lp, tax, popRaw, demo, weather) ==
    [urbanity         |-> IF code \in DOMAIN scoreMap
                          THEN scoreMap[code] ELSE Num(0),
     light_pollution  |-> Num(Get(nl, code, 0)),
     night_light      |-> Num(Get(nl, code, 0)),
     population       |-> Num(Get(pop, code, 0)),
     population_count |-> IF code \in Keys(popRaw)
                          THEN Num(popRaw.data[code].count) ELSE Num(0),
     poi              |-> Num(Get(poi, code, 0)),
     poi_count        |-> Num(0),
     poi_density      |-> Num(0),
     land_price       |-> IF code \in Keys(lp) THEN Num(lp.data[code]) ELSE Null,
     avg_income       |-> IF code \in Keys(tax) THEN Num(tax.data[code]) ELSE Null,
     pop_growth       |-> IF code \in Keys(demo)
                          THEN demo.data[code].pop_growth ELSE Null,
     elderly_ratio    |-> IF code \in Keys(demo)
                          THEN demo.data[code].elderly_ratio ELSE Null,
     max_temp         |-> IF code \in Keys(weather)
                          THEN weather.data[code].max_temp ELSE Null,
     max_snow         |-> IF code \in Keys(weather)
                          THEN weather.data[code].max_snow ELSE Null]

\* integrated_scores: one record per code of all_codes.
IntegratedScores(nl, pop, poi, lp, tax, popRaw, demo, weather, uBased) ==
    LET scoreMap == ScoreMap(nl, pop, poi, lp, uBased)
    IN  [c \in AllCodes(nl, pop, poi, lp) |->
            CompositeRecord(c, scoreMap, nl, pop, poi, lp, tax, popRaw,
                            demo, weather)]

\* str(c).zfill(5)
RECURSIVE Zfill5(_)
Zfill5(code) == IF Len(code) >= 5 THEN code ELSE Zfill5(<<0>> \o code)

\* get_prop(c, key) for every key: the record of the zero-padded code, or
\* None for every key when the code has no record.  The feature keeps the
\* columns of the boundary file: it has a property N03_007 only when the
\* code sits in the column of that name.
NoRecord ==
    [urbanity |-> Null, light_pollution |-> Null, night_light |-> Null,
     population |-> Null, population_count |-> Null, poi |-> Null,
     poi_count |-> Null, poi_density |-> Null, land_price |-> Null,
     avg_income |-> Null, pop_growth |-> Null, elderly_ratio |-> Null,
     max_temp |-> Null, max_snow |-> Null]
\* gdf.to_file(driver="GeoJSON") writes a missing float (NaN) as null.
GeoValue(v) == IF v = NaN THEN Null ELSE v

FeatureProps(integrated, code, col) ==
    LET r == IF Zfill5(code) \in DOMAIN integrated
             THEN integrated[Zfill5(code)] ELSE NoRecord
    IN  [N03_007 |-> IF col = "N03_007" THEN code ELSE Null,
         urbanity_v2 |-> GeoValue(r.urbanity),
         light_pollution |-> GeoValue(r.light_pollution),
         population_score |-> GeoValue(r.population),
         population_count |-> GeoValue(r.population_count),
         poi_score |-> GeoValue(r.poi),
         poi_count |-> GeoValue(r.poi_count),
         poi_density |-> GeoValue(r.poi_density),
         land_price |-> GeoValue(r.land_price),
         avg_income |-> GeoValue(r.avg_income),
         pop_growth |-> GeoValue(r.pop_growth),
         elderly_ratio |-> GeoValue(r.elderly_ratio),
         max_temp |-> GeoValue(r.max_temp),
         max_snow |-> GeoValue(r.max_snow)]

NoJson == [exists |-> FALSE, keys |-> <<>>, data |-> <<>>]
NoGeo  == [exists |-> FALSE, features |-> <<>>]

\* The scaled matrix handed to the PCA.
ScaledMatrix(nl, pop, poi, lp) ==
    LET valid == ValidCodes(nl, pop, poi, lp)
    IN  StandardScale([i \in DOMAIN valid |->
                          MatrixRow(LayerValues(nl, pop, poi, lp, valid[i]))])

\* Mutant of IntegrateMissingNightLight: the message and a plain return.
IntegrateMissingNightLightReturns ==
    /\ ~nlFile.exists
    /\ exitStatus' = 0
    /\ UNCHANGED <<nlFile, popFile, poiFile, lpFile, popRawFile, demoFile,
                   weatherFile, taxCsv, taxFile, outJson, outGeo, validCodes,
                   uBasedFlip, boundary, matrixX, weights_normalized,
                   weightLine, summaryLine>>

\* The night-light score file is missing: sys.exit(1) before anything else.
IntegrateMissingNightLight ==
    /\ ~nlFile.exists
    /\ exitStatus' = 1
    /\ UNCHANGED <<nlFile, popFile, poiFile, lpFile, popRawFile, demoFile,
                   weatherFile, taxCsv, taxFile, outJson, outGeo, validCodes,
                   uBasedFlip, boundary, matrixX, weights_normalized, weightLine,
                   summaryLine>>

\* No code has a positive layer value: the message and a plain return.
IntegrateNoValidData ==
    /\ nlFile.exists
    /\ ValidCodes(nlFile, popFile, poiFile, lpFile) = <<>>
    /\ validCodes' = <<>>
    /\ matrixX' = <<>>
    /\ exitStatus' = 0
    /\ UNCHANGED <<nlFile, popFile, poiFile, lpFile, popRawFile, demoFile,
                   weatherFile, taxCsv, taxFile, outJson, outGeo, uBasedFlip,
                   boundary, weights_normalized, weightLine, summaryLine>>

\* The full run.  The weights are printed, the records are inserted in the
\* iteration order of the set all_codes and dumped in that order; the
\* annotated polygons are written only if the boundary file exists and has a
\* column of a candidate name; the summary is printed and main returns.
IntegrateWrite ==
    /\ nlFile.exists
    /\ ValidCodes(nlFile, popFile, poiFile, lpFile) # <<>>
    /\ validCodes' = ValidCodes(nlFile, popFile, poiFile, lpFile)
    /\ matrixX' = BuildX(nlFile, popFile, poiFile, lpFile)
    /\ LET Z == ScaledMatrix(nlFile, popFile, poiFile, lpFile)
       IN  /\ weights_normalized' = WeightsNormalized(Z)
           /\ weightLine' = WeightLine(WeightsNormalized(Z))
           /\ summaryLine' = SummaryLine(WeightsNormalized(Z))
    /\ LET integrated == IntegratedScores(nlFile, popFile, poiFile, lpFile,
                             taxFile, popRawFile, demoFile, weatherFile,
                             uBasedFlip)
           col == CodeCol(boundary.columns)
       IN  /\ \E order \in IterationOrders(DOMAIN integrated) :
                 outJson' = [exists |-> TRUE, keys |-> order,
                             data |-> integrated]
           /\ outGeo' = IF boundary.exists /\ col # "none"
                         THEN [exists |-> TRUE,
                               features |-> [i \in DOMAIN Features |->
                                   FeatureProps(integrated, Features[i], col)]]
                         ELSE outGeo
    /\ exitStatus' = 0
    /\ UNCHANGED <<nlFile, popFile, poiFile, lpFile, popRawFile, demoFile,
                   weatherFile, taxCsv, taxFile, uBasedFlip, boundary>>

Integrate ==
    \/ IntegrateMissingNightLight
    \/ IntegrateNoValidData
    \/ IntegrateWrite

-----------------------------------------------------------------------------
(* process_tax.py: the ward fallback.                                      *)

\* code[:-1] + '0' and code[:-2] + '00'
ParentLastDigit(code) == SubSeq(code, 1, Len(code) - 1) \o <<0>>
ParentLastTwo(code)   == SubSeq(code, 1, Len(code) - 2) \o <<0, 0>>

Put(result, code, value) ==
    [c \in DOMAIN result \cup {code} |-> IF c = code THEN value ELSE result[c]]

\* Mutant of FillOne: the second heuristic is tried for codes ending in 0 only.
FillOneSecondOnlyForTens(result, code) ==
    IF code = Null THEN result
    ELSE IF code \in DOMAIN result THEN result
    ELSE IF ParentLastDigit(code) \in DOMAIN result
         THEN Put(result, code, result[ParentLastDigit(code)])
    ELSE IF code[Len(code)] = 0 /\ ParentLastTwo(code) \in DOMAIN result
         THEN Put(result, code, result[ParentLastTwo(code)])
    ELSE result

\* One turn of the loop over geojson['features'].
FillOne(result, code) ==
    IF code = Null THEN result
    ELSE IF code \in DOMAIN result THEN result
    ELSE IF ParentLastDigit(code) \in DOMAIN result
         THEN Put(result, code, result[ParentLastDigit(code)])
    ELSE IF ParentLastTwo(code) \in DOMAIN result
         THEN Put(result, code, result[ParentLastTwo(code)])
    ELSE result

\* The loop: result is filled in place, feature after feature.
RECURSIVE FillWards(_, _)
FillWards(result, feats) ==
    IF feats = <<>> THEN result
    ELSE FillWards(FillOne(result, Head(feats).N03_007), Tail(feats))

\* The feature list of a polygon collection that lists the codes in order o.
FeatureList(o) == [i \in DOMAIN o |-> [N03_007 |-> o[i]]]

\* The tables the loop may start from: own values of the city and of any of
\* its wards.
OwnTables ==
    UNION {[S -> {2900000, 3200000}] : S \in SUBSET {CityAB, CodeA, CodeB, CodeC}}

FillInit ==
    /\ fillOwn \in OwnTables
    /\ fillFeatures \in {FeatureList(o) : o \in IterationOrders(Range(Features))}
    /\ filled = Absent

\* The fill loop run on the drawn table and polygon collection.
FillMissingWards ==
    /\ ~filled.exists
    /\ filled' = File(FillWards(fillOwn, fillFeatures))
    /\ UNCHANGED <<fillOwn, fillFeatures>>

\* The whole script: the table, then the fallback when the annotated
\* polygon collection of an earlier integration exists, then the dump.
ProcessTax ==
    /\ taxFile' = File(IF outGeo.exists
                       THEN FillWards(taxCsv, outGeo.features)
                       ELSE taxCsv)
    /\ UNCHANGED <<nlFile, popFile, poiFile, lpFile, popRawFile, demoFile,
                   weatherFile, taxCsv, outJson, outGeo, validCodes,
                   uBasedFlip, exitStatus, boundary, matrixX, weights_normalized,
                   weightLine, summaryLine>>

-----------------------------------------------------------------------------
(* process_weather.py: station metadata, readings, nearest station.        *)
(* Coordinates are pairs of integers in the projected plane.  A maximum    *)
(* temperature reading is in hundredths of a degree, a snow depth reading  *)
(* in tenths of a centimetre; the JMA tables give the first to one decimal *)
(* and the second in whole centimetres.                                    *)

\* Rows of the largest drawn smaster.index.
MaxMetaRows == 2

\* exclude_stations = ["富士山"]
ExcludeStations == {"Fujisan"}

MetaRows  == [name : {"S1", "S2"}, coord : {<<0, 0>>, <<4, 0>>}]
\* smaster.index holds up to MaxMetaRows stations, ame_master one.
SmasterFiles == UNION {[1..n -> MetaRows] : n \in 1..MaxMetaRows}
AmedasFiles  == [1..1 -> MetaRows]

\* snow_master: the mountain station only.
SnowMaster == <<[name |-> "Fujisan", coord |-> <<4, 1>>]>>

\* The rows of a table at the indices of keep, in table order, from row i on.
RECURSIVE Pick(_, _, _)
Pick(rows, keep, i) ==
    IF i > Len(rows) THEN <<>>
    ELSE (IF i \in keep THEN <<rows[i]>> ELSE <<>>) \o Pick(rows, keep, i + 1)

\* df.drop_duplicates(subset=["name"], keep="last")
DropDuplicatesKeepLast(rows) ==
    Pick(rows, {i \in DOMAIN rows :
                   \A j \in (i + 1)..Len(rows) : rows[j].name # rows[i].name}, 1)

\* df.drop_duplicates(subset=["name"], keep="first")
DropDuplicatesKeepFirst(rows) ==
    Pick(rows, {i \in DOMAIN rows :
                   \A j \in 1..(i - 1) : rows[j].name # rows[i].name}, 1)

\* parse_smaster_index and parse_amedas_master end with keep="last".
parse_smaster_index(rows)  == DropDuplicatesKeepLast(rows)
parse_amedas_master(rows)  == DropDuplicatesKeepLast(rows)

\* pd.concat(all_stations) followed by drop_duplicates(keep="first").
StationsDf(sources) ==
    DropDuplicatesKeepFirst(parse_smaster_index(sources[1])
                            \o parse_amedas_master(sources[2])
                            \o parse_amedas_master(sources[3]))

\* {row["name"]: (row["lat"], row["lon"]) for _, row in iterrows()}: a later
\* row of the same name replaces an earlier one.
NameLookup(df) ==
    [n \in {df[i].name : i \in DOMAIN df} |->
        df[CHOOSE i \in DOMAIN df :
               df[i].name = n /\ \A j \in (i + 1)..Len(df) : df[j].name # n].coord]

\* station.split("（")[0].split("(")[0].strip()
CleanName(station) == IF station = "S2(b)" THEN "S2" ELSE station

\* The readings after the groupby, as drawn: per station the maximum
\* temperature and the maximum snow depth, either of which can be missing.
WeatherTables ==
    {<<[station_name |-> "S1", max_temp |-> Num(3500), max_snow |-> Null],
       [station_name |-> "S2", max_temp |-> Null, max_snow |-> Num(100)]>>,
     <<[station_name |-> "S1", max_temp |-> Num(3500), max_snow |-> Num(100)],
       [station_name |-> "S2", max_temp |-> Num(3010), max_snow |-> Num(1200)]>>,
     <<[station_name |-> "S1", max_temp |-> Null, max_snow |-> Num(100)],
       [station_name |-> "S2(b)", max_temp |-> Num(3500), max_snow |-> Null],
       [station_name |-> "Fujisan", max_temp |-> Num(1780), max_snow |-> Num(3000)]>>,
     <<[station_name |-> "S3", max_temp |-> Num(3010), max_snow |-> Num(50)]>>}

\* The coordinates the matching finds for a station name, <<>> for none:
\* the name itself, else the name without its parenthesis.
MatchCoord(lookup, station) ==
    IF station \in DOMAIN lookup THEN lookup[station]
    ELSE IF CleanName(station) \in DOMAIN lookup THEN lookup[CleanName(station)]
    ELSE <<>>

\* matched_data: the stations that are not excluded and have coordinates.
MatchedStations(df, lookup) ==
    {[station_name |-> r.station_name, max_temp |-> r.max_temp,
      max_snow |-> r.max_snow, coord |-> MatchCoord(lookup, r.station_name)] :
        r \in {q \in Range(df) : /\ q.station_name \notin ExcludeStations
                                 /\ MatchCoord(lookup, q.station_name) # <<>>}}

\* The centroid of a region.
Centroid(code) ==
    CASE code = CodeA -> <<1, 0>>
      [] code = CodeB -> <<2, 0>>
      [] code = CodeC -> <<4, 1>>

\* Squared distance in the projected plane.
Distance2(p, q) == (p[1] - q[1]) * (p[1] - q[1]) + (p[2] - q[2]) * (p[2] - q[2])

NoStation ==
    [station_name |-> "none", max_temp |-> Null, max_snow |-> Null,
     coord |-> <<0, 0>>]

\* The right rows gpd.sjoin_nearest(..., how="left") joins to a centroid:
\* the candidates at the least distance; no candidate at all leaves the
\* joined columns empty.
Nearest(point, candidates) ==
    IF candidates = {} THEN {NoStation}
    ELSE {r \in candidates :
             \A q \in candidates : Distance2(point, r.coord) <= Distance2(point, q.coord)}

\* weather_gdf_proj[weather_gdf_proj["max_temp"].notna()]
TempCandidates(matched) == {r \in matched : r.max_temp # Null}
\* Mutant of SnowCandidates: the snow join runs over every matched station.
SnowCandidatesUnfiltered(matched) == matched
\* weather_gdf_proj[weather_gdf_proj["max_snow"].notna()]
SnowCandidates(matched) == {r \in matched : r.max_snow # Null}

\* round(row["max_temp"], 1), in tenths of a degree.
RoundTemp(v) == IF v = Null THEN Null ELSE Num(RoundHalfEven(v[1], 10))
\* int(row["max_snow"]), in centimetres.
IntSnow(v) == IF v = Null THEN Null ELSE Num(v[1] \div 10)

\* The entry of weather_data for one code, from the station the
\* temperature join gave it and the station the snow join gave it.
WeatherEntry(t, sn) ==
    [max_temp |-> RoundTemp(t.max_temp),
     max_snow |-> IntSnow(sn.max_snow),
     station  |-> IF t.station_name # "none" THEN t.station_name
                  ELSE IF sn.station_name # "none" THEN sn.station_name
                  ELSE "none"]

\* The script.  It returns without output when no station is matched or
\* when the boundary file has no region-code column; otherwise every
\* feature gets its entry.  Where several stations are equally near, the
\* join returns all of them and the last row met overwrites the others.
ProcessWeather ==
    /\ name_lookup = <<>>
    /\ name_lookup' = NameLookup(StationsDf(metaSources))
    /\ LET matched == MatchedStations(weather_df, NameLookup(StationsDf(metaSources)))
           temp(c) == Nearest(Centroid(c), TempCandidates(matched))
           snow(c) == Nearest(Centroid(c), SnowCandidates(matched))
       IN  IF matched = {} \/ CodeCol(boundary.columns) = "none"
           THEN weatherFile' = weatherFile
           ELSE \E ta \in temp(CodeA), tb \in temp(CodeB), tc \in temp(CodeC) :
                \E sa \in snow(CodeA), sb \in snow(CodeB), sc \in snow(CodeC) :
                   weatherFile' =
                       File([c \in {Zfill5(f) : f \in Range(Features)} |->
                                CASE c = CodeA -> WeatherEntry(ta, sa)
                                  [] c = CodeB -> WeatherEntry(tb, sb)
                                  [] c = CodeC -> WeatherEntry(tc, sc)])
    /\ UNCHANGED <<metaSources, weather_df, boundary>>
    /\ UNCHANGED <<nlFile, popFile, poiFile, lpFile, popRawFile, demoFile,
                   taxCsv, taxFile, outJson, outGeo, validCodes, uBasedFlip,
                   exitStatus, matrixX, weights_normalized, weightLine,
                   summaryLine>>

WeatherInit ==
    /\ metaSources \in
          {<<a, b, SnowMaster>> : a \in SmasterFiles, b \in AmedasFiles}
    /\ weather_df \in WeatherTables
    /\ name_lookup = <<>>

-----------------------------------------------------------------------------
(* The resolution of the region-code field, stage by stage.  The outcome   *)
(* of a stage is its exit status and the set of output files it wrote,     *)
(* the rest of the stage taken to succeed.                                 *)

Stages ==
    {"night_light", "population", "poi", "land_price", "weather", "integration"}

\* The columns a polygon collection can have.
ColumnSets == SUBSET {"N03_001", "N03_007", "code", "id", "JCODE"}

\* process_night_lights.py, process_population.py, process_poi.py:
\* if code_col is None: print(...); sys.exit(1)
ExitingStage(cols, output) ==
    IF CodeCol(cols) = "none"
    THEN [exit |-> 1, wrote |-> {}]
    ELSE [exit |-> 0, wrote |-> {output}]

\* process_land_price.py tries N03_007, then code, id, JCODE, and returns
\* from main when none is a column; process_weather.py returns likewise.
ReturningStage(cols, output) ==
    IF CodeCol(cols) = "none"
    THEN [exit |-> 0, wrote |-> {}]
    ELSE [exit |-> 0, wrote |-> {output}]

\* integrate_scores.py has dumped the records when it reads the polygon
\* collection, and skips the annotated polygons when no column is found.
IntegrationStage(cols) ==
    IF CodeCol(cols) = "none"
    THEN [exit |-> 0, wrote |-> {"urbanity-score-v2.json"}]
    ELSE [exit |-> 0, wrote |-> {"urbanity-score-v2.json",
                                 "japan-with-scores-v2.geojson"}]

StageOutcome(st, cols) ==
    CASE st = "night_light" -> ExitingStage(cols, "urbanity-score.json")
      [] st = "population"  -> ExitingStage(cols, "population-score.json")
      [] st = "poi"         -> ExitingStage(cols, "poi-score.json")
      [] st = "land_price"  -> ReturningStage(cols, "land_price.json")
      [] st = "weather"     -> ReturningStage(cols, "weather-data.json")
      [] st = "integration" -> IntegrationStage(cols)

SchemaInit ==
    /\ stage \in Stages
    /\ gdfColumns \in ColumnSets
    /\ outcome = <<>>

RunStage ==
    /\ outcome = <<>>
    /\ outcome' = StageOutcome(stage, gdfColumns)
    /\ UNCHANGED <<stage, gdfColumns>>

-----------------------------------------------------------------------------
(* process_population.py and process_census_population.py.  Both write     *)
(* population-score.json (popFile); the census stage also writes           *)
(* population-data.json (popRawFile).  Head counts of the mesh cells are   *)
(* held in units of 0.0005 like every raw aggregate (2000 is one person);  *)
(* head counts of the census table are held in persons.                    *)

CodeQ == <<0, 2, 2, 0, 1>>

\* The polygons of the boundary file the mesh stage joins against.
MeshRegions == <<CodeA, CodeQ>>

\* The cell lists of a mesh file: the region holding each cell's centroid
\* (Null when no polygon holds it) and the cell's count attribute (Null
\* when the attribute is missing).
CellLists ==
    {<<>>,
     <<[centroid |-> CodeA, count |-> Num(2000)]>>,
     <<[centroid |-> CodeA, count |-> Num(2000)],
       [centroid |-> CodeQ, count |-> Num(2000)]>>,
     <<[centroid |-> CodeQ, count |-> Num(2000)],
       [centroid |-> Null, count |-> Num(2000)]>>,
     <<[centroid |-> CodeA, count |-> Num(2000)],
       [centroid |-> CodeA, count |-> Null]>>}

\* A mesh file: the two digits its name carries after an underscore (Null
\* when it carries none), the name of its population column, its cells.
MeshFileKinds ==
    [pref : {<<0, 1>>, <<0, 2>>, Null}, col : {"PTN_2020", "POP"},
     cells : CellLists]

MaxMeshFiles == 2

MeshDirs == UNION {[1..n -> MeshFileKinds] : n \in 1..MaxMeshFiles}

\* municipalities_gdf[code_col].str.startswith(pref_code), all polygons when
\* the file name carries no code or the code selects none.
TargetMun(pref) ==
    LET sel == {c \in Range(MeshRegions) : SubSeq(c, 1, 2) = pref}
    IN  IF pref = Null \/ sel = {} THEN Range(MeshRegions) ELSE sel

\* fillna(0).astype(float) and the sum of a column.
RECURSIVE SumCounts(_)
SumCounts(cells) ==
    IF cells = <<>> THEN 0
    ELSE (IF Head(cells).count = Null THEN 0 ELSE Head(cells).count[1])
         + SumCounts(Tail(cells))

\* The cells of a list whose centroid is the region c.
RECURSIVE CellsIn(_, _)
CellsIn(cells, c) ==
    IF cells = <<>> THEN <<>>
    ELSE (IF Head(cells).centroid = c THEN <<Head(cells)>> ELSE <<>>)
         \o CellsIn(Tail(cells), c)

\* sjoin(how='inner', predicate='within') against the target polygons, then
\* groupby(code_col)[pop_col].sum().
SubAgg(f) ==
    LET target == TargetMun(f.pref)
        hit    == {c \in target : CellsIn(f.cells, c) # <<>>}
    IN  [c \in hit |-> SumCounts(CellsIn(f.cells, c))]

\* The loop over mesh_files: empty files are passed over, the population
\* column is settled by the first file that has cells, files without that
\* column are skipped.  Returns the list aggregated_results.
RECURSIVE MeshLoop(_, _)
MeshLoop(files, pop_col) ==
    IF files = <<>> THEN <<>>
    ELSE LET f   == Head(files)
             col == IF pop_col = "none" THEN f.col ELSE pop_col
         IN  IF f.cells = <<>> THEN MeshLoop(Tail(files), pop_col)
             ELSE IF col # f.col THEN MeshLoop(Tail(files), col)
             ELSE <<SubAgg(f)>> \o MeshLoop(Tail(files), col)

\* pd.concat(aggregated_results).groupby(code_col)['total_pop'].sum()
RECURSIVE SumAt(_, _)
SumAt(results, c) ==
    IF results = <<>> THEN 0
    ELSE (IF c \in DOMAIN Head(results) THEN Head(results)[c] ELSE 0)
         + SumAt(Tail(results), c)

FinalAgg(results) ==
    LET codes == UNION {DOMAIN results[i] : i \in DOMAIN results}
    IN  [c \in codes |-> SumAt(results, c)]

\* population-score.json of the mesh stage: the scores of the totals, by
\* zero-padded code.
MeshScoreFile(agg) ==
    LET codes == Sorted(DOMAIN agg)
    IN  ScoreFile([i \in DOMAIN codes |-> Zfill5(codes[i])],
                  PopulationScores([i \in DOMAIN codes |-> agg[codes[i]]]))

\* The mesh stage.  It ends without output when no file gave a result, and
\* with an exception of min() when no cell fell into any polygon.
ProcessPopulation ==
    /\ "mesh" \notin Range(stagesRun)
    /\ stagesRun' = Append(stagesRun, "mesh")
    /\ LET results == MeshLoop(meshFiles, "none")
           agg     == FinalAgg(results)
       IN  IF results = <<>>
           THEN UNCHANGED <<final_agg, popFile>>
           ELSE /\ final_agg' = File(agg)
                /\ popFile' = IF DOMAIN agg = {} THEN popFile
                              ELSE MeshScoreFile(agg)
    /\ UNCHANGED <<meshFiles, censusFile, popRawFile>>
    /\ UNCHANGED <<nlFile, poiFile, lpFile, demoFile, weatherFile, taxCsv,
                   taxFile, outJson, outGeo, validCodes, uBasedFlip,
                   exitStatus, boundary, matrixX, weights_normalized,
                   weightLine, summaryLine>>

\* The census tables: the region kind (column 0), the 2020 code as read
\* (column 5) and the head count (column 7; Null for a cell that is not a
\* number).  Kind "a" marks a prefecture row.
CensusTables ==
    {<<[kind |-> "1", code |-> <<1, 1, 0, 1>>, population |-> Num(10)],
       [kind |-> "2", code |-> <<1, 1, 0, 0>>, population |-> Num(1000)],
       [kind |-> "a", code |-> <<1, 0, 0, 0>>, population |-> Num(1000)]>>,
     <<[kind |-> "1", code |-> <<1, 1, 0, 1>>, population |-> Num(100)],
       [kind |-> "2", code |-> <<2, 2, 0, 1>>, population |-> Num(10)],
       [kind |-> "3", code |-> <<1, 1, 1, 1>>, population |-> Null]>>,
     <<[kind |-> "1", code |-> <<1, 1, 0, 1>>, population |-> Num(100)],
       [kind |-> "3", code |-> <<1, 1, 1, 1>>, population |-> Num(0)]>>}

\* np.log10(x) of the head counts above, in units of 1e-5.
Log10(x) ==
    CASE x = 1    -> 0
      [] x = 10   -> 100000
      [] x = 100  -> 200000
      [] x = 1000 -> 300000

\* The rows that remain: a municipal kind, a head count that is a number
\* above zero.
RECURSIVE CleanRows(_)
CleanRows(rows) ==
    IF rows = <<>> THEN <<>>
    ELSE LET r == Head(rows)
         IN  (IF /\ r.kind \in {"0", "1", "2", "3"}
                 /\ r.population # Null
                 /\ r.population[1] > 0
              THEN <<r>> ELSE <<>>) \o CleanRows(Tail(rows))

\* log10, min-max, round: the scores of the remaining rows.
CensusScores(clean) ==
    MinMaxScore([i \in DOMAIN clean |-> Log10(clean[i].population[1])])

\* population-score.json and population-data.json of the census stage, by
\* zero-padded code; a later row of the same code replaces an earlier one.
CensusScoreFile(clean) ==
    LET scores == CensusScores(clean)
        last(c) == SetMax({i \in DOMAIN clean : Zfill5(clean[i].code) = c})
    IN  File([c \in {Zfill5(clean[i].code) : i \in DOMAIN clean} |->
                 scores[last(c)]])

CensusDataFile(clean) ==
    LET scores == CensusScores(clean)
        last(c) == SetMax({i \in DOMAIN clean : Zfill5(clean[i].code) = c})
    IN  File([c \in {Zfill5(clean[i].code) : i \in DOMAIN clean} |->
                 [count |-> clean[last(c)].population[1],
                  score |-> scores[last(c)]]])

\* The census stage.  It ends without output when the table is missing, and
\* with an exception of min() when no row remains.
ProcessCensusPopulation ==
    /\ "census" \notin Range(stagesRun)
    /\ stagesRun' = Append(stagesRun, "census")
    /\ LET clean == IF censusFile.exists THEN CleanRows(censusFile.data)
                    ELSE <<>>
       IN  IF clean = <<>>
           THEN UNCHANGED <<popFile, popRawFile>>
           ELSE /\ popFile' = CensusScoreFile(clean)
                /\ popRawFile' = CensusDataFile(clean)
    /\ UNCHANGED <<meshFiles, censusFile, final_agg>>
    /\ UNCHANGED <<nlFile, poiFile, lpFile, demoFile, weatherFile, taxCsv,
                   taxFile, outJson, outGeo, validCodes, uBasedFlip,
                   exitStatus, boundary, matrixX, weights_normalized,
                   weightLine, summaryLine>>

\* population-score.json and population-data.json as the census stage leaves
\* them for a table that lists ward 01101 and, with the smallest head
\* count, a town 01202 that the boundary file does not hold.
CensusWritten ==
    LET clean == CleanRows(
            <<[kind |-> "1", code |-> <<1, 1, 0, 1>>, population |-> Num(1000)],
              [kind |-> "3", code |-> <<1, 2, 0, 2>>, population |-> Num(10)]>>)
    IN  [score |-> CensusScoreFile(clean), data |-> CensusDataFile(clean)]

MeshInit ==
    /\ meshFiles \in MeshDirs
    /\ censusFile \in {File(t) : t \in CensusTables} \cup {Absent}
    /\ final_agg = Absent
    /\ stagesRun = <<>>

-----------------------------------------------------------------------------
(* process_tax.py from the CSV on: the row loop, the ward fallback, the    *)
(* dump.                                                                   *)

\* Cells of the code column: a missing cell, a string of digits (which
\* pandas may also have read as a number), any other text.
NoCell      == [kind |-> "nan", digits |-> <<>>]
TextCell    == [kind |-> "text", digits |-> <<>>]
Digits(d)   == [kind |-> "digits", digits |-> d]
\* Cells of the two figure columns: a missing cell, a figure, a mark such as
\* "-" or "*", and a string such as a superscript digit that str.isdigit
\* accepts and float rejects.
Figure(n)   == [kind |-> "figure", value |-> n]
NoFigure    == [kind |-> "nan", value |-> 0]
MarkCell    == [kind |-> "mark", value |-> 0]
OddDigit    == [kind |-> "odd", value |-> 0]

\* str(int(float(code_val))): the digits without their leading zeros.
RECURSIVE StrInt(_)
StrInt(d) ==
    IF Len(d) > 1 /\ Head(d) = 0 THEN StrInt(Tail(d)) ELSE d

\* The code of a row as lines 51-71 and 101-102 shape it: an eventual fifth
\* digit is preceded by "0", six digits are cut to five.
NormalizeCode(d) ==
    LET c == StrInt(d)
        p == IF Len(c) = 5 THEN <<0>> \o c ELSE c
    IN  IF Len(p) = 6 THEN SubSeq(p, 1, 5) ELSE p

\* What one turn of the row loop does: "stored" when result[code] is set,
\* "skipped" when a continue is taken, "raised" when the except clause is.
RowOutcome(row) ==
    IF row.code.kind # "digits" THEN "skipped"
    ELSE IF row.taxpayers.kind = "nan" \/ row.income.kind = "nan" THEN "skipped"
    ELSE IF row.taxpayers.kind = "mark" \/ row.income.kind = "mark" THEN "skipped"
    ELSE IF row.taxpayers.kind = "odd" \/ row.income.kind = "odd" THEN "raised"
    ELSE IF row.taxpayers.value <= 0 THEN "skipped"
    ELSE "stored"

\* round(income_thousand_yen * 1000 / taxpayers)
AvgIncome(row) ==
    RoundHalfEven(row.income.value * 1000, row.taxpayers.value)

\* The row loop: result after the rows i.. have been read into it.
RECURSIVE RowLoop(_, _, _)
RowLoop(rows, i, result) ==
    IF i > Len(rows) THEN result
    ELSE RowLoop(rows, i + 1,
                 IF RowOutcome(rows[i]) = "stored"
                 THEN Put(result, NormalizeCode(rows[i].code.digits),
                          AvgIncome(rows[i]))
                 ELSE result)

\* The rows whose exception is printed: those among the first ten.
ErrorLines(rows) ==
    SelectSeq([i \in DOMAIN rows |-> i - 1],
              LAMBDA i : i < 10 /\ RowOutcome(rows[i + 1]) = "raised")

TaxRowKinds ==
    {[code |-> Digits(<<0, 1, 1, 0, 0, 2>>), taxpayers |-> Figure(10),
      income |-> Figure(32000)],
     [code |-> Digits(<<1, 1, 0, 1, 1>>), taxpayers |-> Figure(10),
      income |-> Figure(29000)],
     [code |-> Digits(<<0, 1, 1, 0, 0>>), taxpayers |-> Figure(10),
      income |-> Figure(32000)],
     [code |-> NoCell, taxpayers |-> NoFigure, income |-> NoFigure],
     [code |-> TextCell, taxpayers |-> MarkCell, income |-> MarkCell],
     [code |-> Digits(<<0, 1, 1, 1, 0, 3>>), taxpayers |-> MarkCell,
      income |-> MarkCell],
     [code |-> Digits(<<0, 1, 1, 1, 0, 3>>), taxpayers |-> Figure(0),
      income |-> Figure(0)],
     [code |-> Digits(<<0, 1, 1, 1, 0, 3>>), taxpayers |-> Figure(10),
      income |-> NoFigure],
     [code |-> Digits(<<0, 1, 1, 1, 0, 3>>), taxpayers |-> Figure(10),
      income |-> OddDigit]}

MaxTaxRows == 2

RowInit ==
    /\ taxRows \in UNION {[1..n -> TaxRowKinds] : n \in 1..MaxTaxRows}
    /\ taxErrors = <<>>

\* The whole script on the drawn CSV.
ProcessTaxRows ==
    /\ ~taxFile.exists
    /\ taxErrors' = ErrorLines(taxRows)
    /\ LET result == RowLoop(taxRows, 1, <<>>)
       IN  taxFile' = File(IF outGeo.exists
                           THEN FillWards(result, outGeo.features)
                           ELSE result)
    /\ UNCHANGED taxRows
    /\ UNCHANGED <<nlFile, popFile, poiFile, lpFile, popRawFile, demoFile,
                   weatherFile, taxCsv, outJson, outGeo, validCodes,
                   uBasedFlip, exitStatus, boundary, matrixX,
                   weights_normalized, weightLine, summaryLine>>

-----------------------------------------------------------------------------
(* process_poi.py and process_land_price.py: points joined to the polygon  *)
(* that holds them.  A point is known by where it lies: inside 01101,      *)
(* inside 01110, on the border the two share, or outside every polygon.    *)

Places == {"in01101", "in01110", "border", "outside"}

\* Mutant of Within: a point on a border is joined to the polygons it
\* touches (predicate 'intersects').
WithinOrTouching(place) ==
    CASE place = "in01101" -> {CodeA}
      [] place = "in01110" -> {CodeB}
      [] place = "border"  -> {CodeA, CodeB}
      [] place = "outside" -> {}

\* predicate='within': the polygons whose interior holds the point.  The
\* polygons of the boundary file do not overlap.
Within(place) ==
    CASE place = "in01101" -> {CodeA}
      [] place = "in01110" -> {CodeB}
      [] place = "border"  -> {}
      [] place = "outside" -> {}

\* gpd.sjoin(points, polygons, how='inner', predicate='within'): one row
\* per pair of a point and a polygon that holds it.
RECURSIVE Sjoin(_, _)
Sjoin(points, i) ==
    IF i > Len(points) THEN <<>>
    ELSE LET hit == Sorted(Within(points[i].place))
         IN  [k \in DOMAIN hit |-> [point |-> i, code |-> hit[k]]]
             \o Sjoin(points, i + 1)

\* The rows of a join that carry code c.
RowsOf(j, c) == {k \in DOMAIN j : j[k].code = c}

MaxNodes == 2

\* The nodes of an OSM extract: where the node lies and whether its tags
\* are among TARGET_TAGS.
NodeKinds ==
    [place : Places, tagged : {TRUE}]
        \cup {[place |-> "in01101", tagged |-> FALSE]}

NoSource == [kind |-> "absent", nodes |-> <<>>]
Sources ==
    {NoSource, [kind |-> "unreadable", nodes |-> <<>>]}
        \cup {[kind |-> "pbf", nodes |-> n] :
                 n \in UNION {[1..k -> NodeKinds] : k \in 0..MaxNodes}}

\* handler.pois: the tagged nodes, in file order.
RECURSIVE Pois(_)
Pois(nodes) ==
    IF nodes = <<>> THEN <<>>
    ELSE (IF Head(nodes).tagged THEN <<[place |-> Head(nodes).place]>>
          ELSE <<>>) \o Pois(Tail(nodes))

\* Mutant of SampleTable: an existing source is parsed again although the
\* cache exists.
SampleTableParsesExistingSource(cache, source) ==
    IF cache.exists /\ source.kind # "pbf"
    THEN [ok |-> TRUE, df |-> cache.data, parsed |-> FALSE, cache |-> cache]
    ELSE IF source.kind = "absent"
    THEN [ok |-> FALSE, df |-> <<>>, parsed |-> FALSE, cache |-> cache]
    ELSE IF source.kind = "unreadable" \/ Pois(source.nodes) = <<>>
    THEN [ok |-> FALSE, df |-> <<>>, parsed |-> TRUE, cache |-> cache]
    ELSE [ok |-> TRUE, df |-> Pois(source.nodes), parsed |-> TRUE,
          cache |-> File(Pois(source.nodes))]

\* Lines 75-108: the cache when it exists, else the parsed source, which is
\* then cached.  The parquet file gives back the table written to it.  The
\* stage exits with status 1 when the source is missing, cannot be read or
\* holds no POI.
SampleTable(cache, source) ==
    IF cache.exists
    THEN [ok |-> TRUE, df |-> cache.data, parsed |-> FALSE, cache |-> cache]
    ELSE IF source.kind = "absent"
    THEN [ok |-> FALSE, df |-> <<>>, parsed |-> FALSE, cache |-> cache]
    ELSE IF source.kind = "unreadable" \/ Pois(source.nodes) = <<>>
    THEN [ok |-> FALSE, df |-> <<>>, parsed |-> TRUE, cache |-> cache]
    ELSE [ok |-> TRUE, df |-> Pois(source.nodes), parsed |-> TRUE,
          cache |-> File(Pois(source.nodes))]

\* merged['poi_count']: the joined rows of each feature's code, 0 for a
\* feature without any.
PoiCount(j) ==
    [c \in Range(Features) |-> Cardinality(RowsOf(j, c))]

\* merged['density']: every polygon of the model has an area of 1 km2, so
\* that the density is the count (in units of 0.0005 per km2).
Density(count) == [i \in DOMAIN Features |-> 2000 * count[Features[i]]]

MaxPoiRuns == 2

\* The whole of process_poi.py.
ProcessPoi ==
    /\ poiRuns < MaxPoiRuns
    /\ poiRuns' = poiRuns + 1
    /\ LET sample == SampleTable(poiCache, osmSource)
           col    == CodeCol(boundary.columns)
           j      == Sjoin(sample.df, 1)
       IN  /\ parsedSource' = sample.parsed
           /\ poiCache' = sample.cache
           /\ poiDf' = sample.df
           /\ IF sample.ok /\ col # "none"
              THEN /\ joined' = j
                   /\ poi_count' = PoiCount(j)
                   /\ poiFile' = ScoreFile(Features,
                                           PoiScores(Density(PoiCount(j))))
                   /\ poiExit' = 0
              ELSE /\ joined' = <<>>
                   /\ poi_count' = <<>>
                   /\ poiExit' = 1
                   /\ UNCHANGED poiFile
    /\ UNCHANGED <<osmSource, landFile, lpJoined>>
    /\ UNCHANGED <<nlFile, popFile, lpFile, popRawFile, demoFile, weatherFile,
                   taxCsv, taxFile, outJson, outGeo, validCodes, uBasedFlip,
                   exitStatus, boundary, matrixX, weights_normalized,
                   weightLine, summaryLine>>

\* Between two runs the OSM extract is removed or replaced by another one.
SourceReplaced ==
    /\ poiRuns \in 1..(MaxPoiRuns - 1)
    /\ osmSource' \in
          {NoSource,
           [kind |-> "pbf", nodes |-> <<[place |-> "in01110", tagged |-> TRUE]>>]}
    /\ osmSource' # osmSource
    /\ UNCHANGED <<poiCache, poiDf, parsedSource, poiRuns, poiExit, joined,
                   poi_count, landFile, lpJoined>>
    /\ UNCHANGED pipeVars

\* The survey points of L01-25.geojson: where the point lies and its price
\* L01_008 (Null when it is not a number).
LandFiles ==
    {File(<<[place |-> "in01101", price |-> Num(50000)]>>),
     File(<<[place |-> "in01101", price |-> Num(50000)],
            [place |-> "in01110", price |-> Num(445000)]>>),
     File(<<[place |-> "border", price |-> Num(445000)],
            [place |-> "in01110", price |-> Num(445000)]>>),
     File(<<[place |-> "in01101", price |-> Num(50000)],
            [place |-> "in01101", price |-> Num(445000)]>>),
     File(<<[place |-> "outside", price |-> Num(445000)],
            [place |-> "in01101", price |-> Null]>>)}

\* The prices of the joined rows of code c that are numbers.
PricedRows(points, j, c) ==
    {k \in RowsOf(j, c) : points[j[k].point].price # Null}

RECURSIVE SumPrices(_, _, _)
SumPrices(points, j, rows) ==
    IF rows = {} THEN 0
    ELSE LET k == CHOOSE x \in rows : TRUE
         IN  points[j[k].point].price[1] + SumPrices(points, j, rows \ {k})

\* groupby(code_col)['price'].mean(), rounded; a code whose mean is NaN is
\* left out.
LandPriceResult(points, j) ==
    LET codes == {c \in {j[k].code : k \in DOMAIN j} :
                     PricedRows(points, j, c) # {}}
    IN  [c \in codes |->
            RoundHalfEven(SumPrices(points, j, PricedRows(points, j, c)),
                          Cardinality(PricedRows(points, j, c)))]

\* The whole of process_land_price.py: it returns without output when the
\* survey file is missing or the code column is not found.
ProcessLandPrice ==
    /\ lpJoined = Null
    /\ landFile.exists
    /\ LET j == Sjoin(landFile.data, 1)
       IN  /\ lpJoined' = [rows |-> j]
           /\ lpFile' = IF CodeCol(boundary.columns) = "none" THEN lpFile
                        ELSE File(LandPriceResult(landFile.data, j))
    /\ UNCHANGED <<osmSource, poiCache, poiDf, parsedSource, poiRuns, poiExit,
                   joined, poi_count, landFile>>
    /\ UNCHANGED <<nlFile, popFile, poiFile, popRawFile, demoFile, weatherFile,
                   taxCsv, taxFile, outJson, outGeo, validCodes, uBasedFlip,
                   exitStatus, boundary, matrixX, weights_normalized,
                   weightLine, summaryLine>>

\* The cache a run of an earlier day may have left.
PoiCaches ==
    {Absent,
     File(<<[place |-> "in01101"]>>),
     File(<<[place |-> "border"], [place |-> "in01110"]>>)}

PointInit ==
    /\ osmSource \in Sources
    /\ poiCache \in PoiCaches
    /\ landFile \in LandFiles \cup {Absent}
    /\ boundary \in {UsualBoundary, [exists |-> TRUE, columns |-> {"N03_001"}]}
    /\ boundary # UsualBoundary => landFile # Absent /\ poiCache = Absent
    /\ poiDf = <<>> /\ parsedSource = FALSE /\ poiRuns = 0 /\ poiExit = -1
    /\ joined = <<>> /\ poi_count = <<>> /\ lpJoined = Null

-----------------------------------------------------------------------------
(* The machines.                                                           *)

NormIdle  == layer = "none" /\ raw = <<>> /\ normalized = <<>>
RemapIdle == remapIn = <<>> /\ remapOut = <<>>
WeatherIdle == metaSources = <<>> /\ weather_df = <<>> /\ name_lookup = <<>>
SchemaIdle  == stage = "none" /\ gdfColumns = {} /\ outcome = <<>>
FillIdle    == fillOwn = <<>> /\ fillFeatures = <<>> /\ filled = Absent
MeshIdle    ==
    /\ meshFiles = <<>> /\ censusFile = Absent /\ final_agg = Absent
    /\ stagesRun = <<>>
RowIdle     == taxRows = <<>> /\ taxErrors = <<>>
PointIdle   ==
    /\ osmSource = [kind |-> "absent", nodes |-> <<>>] /\ poiCache = Absent
    /\ poiDf = <<>> /\ parsedSource = FALSE /\ poiRuns = 0 /\ poiExit = -1
    /\ joined = <<>> /\ poi_count = <<>> /\ landFile = Absent
    /\ lpJoined = Null
StagesIdle  == FillIdle /\ MeshIdle /\ RowIdle /\ PointIdle
\* The pipeline files with nothing in the data directory, but for the
\* boundary file.
PipeEmpty ==
    /\ nlFile = Absent /\ popFile = Absent /\ poiFile = Absent
    /\ lpFile = Absent /\ popRawFile = Absent /\ demoFile = Absent
    /\ weatherFile = Absent /\ taxCsv = <<>> /\ taxFile = Absent
    /\ outJson = NoJson /\ outGeo = NoGeo /\ validCodes = <<>>
    /\ uBasedFlip = FALSE
    /\ exitStatus = -1
    /\ matrixX = <<>> /\ weights_normalized = <<>>
    /\ weightLine = <<>> /\ summaryLine = <<>>
PipeIdle  == PipeEmpty /\ boundary = AbsentBoundary

\* The data directory before tax processing and integration run: the layer
\* files the earlier stages may have left, no tax file, no output.  The
\* boundary files other than the usual one are drawn with one setting of
\* the inputs the boundary file has no bearing on, and so are the files
\* left by the census stage.
PipeInit ==
    /\ nlFile \in NightLightFiles \cup {Absent}
    /\ popFile \in PopulationFiles \cup {CensusWritten.score, Absent}
    /\ poiFile \in PoiFiles \cup {Absent}
    /\ lpFile \in LandPriceFiles \cup {Absent}
    /\ \E aux \in AuxiliaryFiles \cup {<<CensusWritten.data, Absent, Absent>>} :
          popRawFile = aux[1] /\ demoFile = aux[2] /\ weatherFile = aux[3]
    /\ popFile = CensusWritten.score <=> popRawFile = CensusWritten.data
    /\ taxCsv \in TaxTables
    /\ taxFile = Absent
    /\ outJson = NoJson
    /\ outGeo = NoGeo
    /\ validCodes = <<>>
    /\ uBasedFlip \in BOOLEAN
    /\ exitStatus = -1
    /\ boundary \in BoundaryFiles \cup {AbsentBoundary}
    /\ boundary # UsualBoundary =>
          popRawFile = Absent /\ uBasedFlip /\ DOMAIN taxCsv = {CityAB}
    /\ popFile = CensusWritten.score =>
          /\ boundary = UsualBoundary /\ uBasedFlip /\ DOMAIN taxCsv = {CityAB}
          /\ poiFile # Absent /\ lpFile # Absent
    /\ matrixX = <<>> /\ weights_normalized = <<>>
    /\ weightLine = <<>> /\ summaryLine = <<>>

Init == NormIdle /\ RemapIdle /\ WeatherIdle /\ SchemaIdle /\ StagesIdle /\ PipeInit
Next ==
    \/ ProcessTax /\ UNCHANGED <<normVars, remapVars, weatherVars, schemaVars,
                                 stageVars>>
    \/ Integrate /\ UNCHANGED <<normVars, remapVars, weatherVars, schemaVars,
                                stageVars>>
Spec == Init /\ [][Next]_vars

InitNorm == NormInit /\ RemapIdle /\ WeatherIdle /\ SchemaIdle /\ StagesIdle /\ PipeIdle
NextNorm ==
    Normalize /\ UNCHANGED <<remapVars, pipeVars, weatherVars, schemaVars,
                            stageVars>>
SpecNorm == InitNorm /\ [][NextNorm]_vars

InitRemap == NormIdle /\ RemapInit /\ WeatherIdle /\ SchemaIdle /\ StagesIdle /\ PipeIdle
NextRemap ==
    ApplyRemap /\ UNCHANGED <<normVars, pipeVars, weatherVars, schemaVars,
                             stageVars>>
SpecRemap == InitRemap /\ [][NextRemap]_vars

\* process_weather.py on a data directory that holds the boundary file.
InitWeather ==
    /\ NormIdle /\ RemapIdle /\ SchemaIdle /\ StagesIdle /\ PipeEmpty
    /\ boundary \in BoundaryFiles
    /\ WeatherInit
NextWeather ==
    ProcessWeather /\ UNCHANGED <<normVars, remapVars, schemaVars, stageVars>>
SpecWeather == InitWeather /\ [][NextWeather]_vars

InitSchema == NormIdle /\ RemapIdle /\ WeatherIdle /\ PipeIdle /\ StagesIdle /\ SchemaInit
NextSchema ==
    RunStage /\ UNCHANGED <<normVars, remapVars, pipeVars, weatherVars,
                           stageVars>>
SpecSchema == InitSchema /\ [][NextSchema]_vars

\* The machines above at rest, for the stage machines that follow.
CoreIdle == NormIdle /\ RemapIdle /\ WeatherIdle /\ SchemaIdle /\ PipeIdle
coreVars == <<normVars, remapVars, pipeVars, weatherVars, schemaVars>>

\* The fill loop of process_tax.py on a drawn table and feature order.
InitFill == CoreIdle /\ MeshIdle /\ RowIdle /\ PointIdle /\ FillInit
NextFill ==
    FillMissingWards /\ UNCHANGED <<coreVars, meshVars, rowVars, pointVars>>
SpecFill == InitFill /\ [][NextFill]_vars

\* The two population stages on a data directory that holds the boundary
\* file, in either order, each once.
InitPopulation ==
    /\ NormIdle /\ RemapIdle /\ WeatherIdle /\ SchemaIdle /\ FillIdle
    /\ RowIdle /\ PointIdle
    /\ PipeEmpty /\ boundary = UsualBoundary
    /\ MeshInit
NextPopulation ==
    \/ ProcessPopulation
          /\ UNCHANGED <<normVars, remapVars, weatherVars, schemaVars, fillVars,
                         rowVars, pointVars>>
    \/ ProcessCensusPopulation
          /\ UNCHANGED <<normVars, remapVars, weatherVars, schemaVars, fillVars,
                         rowVars, pointVars>>
SpecPopulation == InitPopulation /\ [][NextPopulation]_vars

\* process_tax.py from the CSV on, on a data directory without an annotated
\* polygon collection.
InitTaxRows ==
    /\ NormIdle /\ RemapIdle /\ WeatherIdle /\ SchemaIdle /\ FillIdle
    /\ MeshIdle /\ PointIdle
    /\ PipeEmpty /\ boundary = UsualBoundary
    /\ RowInit
NextTaxRows ==
    ProcessTaxRows
        /\ UNCHANGED <<normVars, remapVars, weatherVars, schemaVars, fillVars,
                       meshVars, pointVars>>
SpecTaxRows == InitTaxRows /\ [][NextTaxRows]_vars

\* process_poi.py and process_land_price.py on a data directory that holds
\* a boundary file; the OSM extract may be replaced or removed between two
\* runs of process_poi.py.
InitPoint ==
    /\ NormIdle /\ RemapIdle /\ WeatherIdle /\ SchemaIdle /\ FillIdle
    /\ MeshIdle /\ RowIdle
    /\ PipeEmpty
    /\ PointInit
NextPoint ==
    \/ ProcessPoi
          /\ UNCHANGED <<normVars, remapVars, weatherVars, schemaVars, fillVars,
                         meshVars, rowVars>>
    \/ SourceReplaced
          /\ UNCHANGED <<normVars, remapVars, weatherVars, schemaVars, fillVars,
                         meshVars, rowVars>>
    \/ ProcessLandPrice
          /\ UNCHANGED <<normVars, remapVars, weatherVars, schemaVars, fillVars,
                         meshVars, rowVars>>
SpecPoint == InitPoint /\ [][NextPoint]_vars

-----------------------------------------------------------------------------
(* Properties of the normalizer machine (SpecNorm).                        *)

\* C1: whenever a layer's raw aggregates hold at least two distinct values,
\* every region holding the smallest raw value scores 0 and every region
\* holding the largest raw value scores 100.
C1_MinToZeroMaxToHundred ==
    (normalized # <<>> /\ Cardinality(Range(raw)) >= 2) =>
        \A i \in DOMAIN raw :
            /\ raw[i] = SetMin(Range(raw)) => normalized[i] = 0
            /\ raw[i] = SetMax(Range(raw)) => normalized[i] = 1000

-----------------------------------------------------------------------------
(* Properties of the remap machine (SpecRemap).                            *)

\* C4: the remap is monotonic non-decreasing on [0,100]: for all scores
\* a <= b, remap(a) <= remap(b).
C4_RemapMonotonic ==
    (remapOut # <<>> /\ remapIn[1] <= remapIn[2]) => remapOut[1] <= remapOut[2]

\* A score of the lowest segment and a score of the top segment have been
\* remapped, and the remap kept them apart.
C4_Witness ==
    /\ remapOut # <<>>
    /\ remapIn[1] < 40 * RemapGrid
    /\ remapIn[2] > 85 * RemapGrid
    /\ remapOut[1] < remapOut[2]

\* C5: the remap sends 0 to 0, 40 to 25, 85 to 75 and 100 to 100 exactly,
\* and at 40 and at 85 the formula of the segment on the left and the
\* formula of the segment on the right give the same value.
C5_RemapBreakpoints ==
    remapOut # <<>> =>
        \A i \in 1..2 :
            LET x == remapIn[i]
                y == remapOut[i]
                unit == RemapScale * RemapGrid
            IN  /\ x = 0 => y = 0
                /\ x = 40 * RemapGrid =>
                      /\ y = 25 * unit
                      /\ RemapLow(x, RemapGrid) = y
                      /\ RemapMid(x, RemapGrid) = y
                /\ x = 85 * RemapGrid =>
                      /\ y = 75 * unit
                      /\ RemapMid(x, RemapGrid) = y
                      /\ RemapHigh(x, RemapGrid) = y
                /\ x = 100 * RemapGrid => y = 100 * unit

\* The two breakpoints have been remapped, to 25 and to 75.
C5_Witness ==
    /\ remapIn = <<40 * RemapGrid, 85 * RemapGrid>>
    /\ remapOut = <<25 * RemapScale * RemapGrid, 75 * RemapScale * RemapGrid>>

-----------------------------------------------------------------------------
(* Properties of the pipeline machine (Spec).                              *)

Records == outJson.data
RecordCodes == DOMAIN outJson.data

\* The layer files cut down to the codes of S.
Restrict(f, S) ==
    [exists |-> f.exists, data |-> [c \in Keys(f) \cap S |-> f.data[c]]]

\* C2: every persisted composite urbanity value is a number in [0,100],
\* for every non-empty restricted set, also one of a single region or one
\* whose projections are all equal.
C2_UrbanityInRange ==
    outJson.exists =>
        \A c \in RecordCodes :
            /\ IsNum(Records[c].urbanity)
            /\ Records[c].urbanity[1] >= 0
            /\ Records[c].urbanity[1] <= 1000

InheritedValue(own, code) ==
    IF code \in DOMAIN own THEN Num(own[code])
    ELSE IF ParentLastDigit(code) \in DOMAIN own
         THEN Num(own[ParentLastDigit(code)])
    ELSE IF ParentLastTwo(code) \in DOMAIN own
         THEN Num(own[ParentLastTwo(code)])
    ELSE Null

\* C6: in the tax output every region code with no own value carries the
\* value of its coarser code (last digit 0, else last two digits 00) when
\* that record exists, else none; a code with an own value keeps it.
C6_HierarchicalFallback ==
    taxFile.exists =>
        \A c \in Range(Features) :
            (IF c \in Keys(taxFile) THEN Num(taxFile.data[c]) ELSE Null)
                = InheritedValue(taxCsv, c)

\* C7: in the persisted records, a region with no own land price (average
\* income) whose coarser code has a record carries that record's land price
\* (average income).
C7_FallbackBothLayers ==
    outJson.exists =>
        \A c \in RecordCodes :
            /\ (c \notin Keys(lpFile) /\ InheritedValue(lpFile.data, c) # Null)
                  => Records[c].land_price = InheritedValue(lpFile.data, c)
            /\ (c \notin DOMAIN taxCsv /\ InheritedValue(taxCsv, c) # Null)
                  => Records[c].avg_income = InheritedValue(taxCsv, c)

\* C8: in every persisted record an auxiliary indicator with no source
\* datum for the region is null, never 0.
C8_NullWhenNoDatum ==
    outJson.exists =>
        \A c \in RecordCodes :
            /\ c \notin Keys(lpFile) => Records[c].land_price = Null
            /\ c \notin Keys(taxFile) => Records[c].avg_income = Null
            /\ c \notin Keys(popRawFile) => Records[c].population_count = Null
            /\ c \notin Keys(demoFile) =>
                  Records[c].pop_growth = Null /\ Records[c].elderly_ratio = Null
            /\ c \notin Keys(weatherFile) =>
                  Records[c].max_temp = Null /\ Records[c].max_snow = Null

\* C9: running the fusion again on the same input files leaves the
\* serialized code-keyed mapping as it was: same keys in the same order,
\* same records.
C9_RerunByteIdentical ==
    [][(/\ IntegrateWrite
        /\ outJson.exists
        /\ outJson.data = IntegratedScores(nlFile, popFile, poiFile, lpFile,
                              taxFile, popRawFile, demoFile, weatherFile,
                              uBasedFlip))
       => outJson' = outJson]_vars

\* The covariance of two series of numbers, times the square of the length.
Covariance(u, v) == Len(u) * Dot(u, v) - Sum(u) * Sum(v)

\* C10: across the restricted set the composite scores are numbers whose
\* correlation with the night-light layer is not negative.
C10_CompositeFollowsNightLight ==
    outJson.exists =>
        /\ \A c \in Range(validCodes) : IsNum(Records[c].urbanity)
        /\ Covariance([i \in DOMAIN validCodes |-> Records[validCodes[i]].urbanity[1]],
                      [i \in DOMAIN validCodes |-> Get(nlFile, validCodes[i], 0)]) >= 0

\* The sum of the figures of a printed line.
RECURSIVE Total(_)
Total(line) == IF line = <<>> THEN 0 ELSE Head(line) + Total(Tail(line))

\* The figures of a printed line are one per fused layer, none negative,
\* and add up to 1.00.
IsWeightReport(line) ==
    /\ Len(line) = 4
    /\ \A k \in DOMAIN line : line[k] >= 0
    /\ Total(line) = 100

\* C11: the weight vector reported by a run, after the fit and in the
\* closing summary, has one component per fused layer (four), every
\* component is >= 0 and the components sum to 1.
C11_WeightReport ==
    weightLine # <<>> => IsWeightReport(weightLine) /\ IsWeightReport(summaryLine)

\* C12: a run that finds no region with a nonzero layer value ends with a
\* nonzero exit status and neither artifact written.
C12_EmptyRestrictedSetFatal ==
    (/\ nlFile.exists
     /\ ValidCodes(nlFile, popFile, poiFile, lpFile) = <<>>
     /\ exitStatus # -1)
        => exitStatus # 0 /\ ~outJson.exists /\ ~outGeo.exists

\* C13: after a run of the integration job either both artifacts are
\* written and the exit status is zero, or no artifact is written and the
\* exit status is nonzero.
C13_AllOrNothing ==
    exitStatus # -1 =>
        \/ outJson.exists /\ outGeo.exists /\ exitStatus = 0
        \/ ~outJson.exists /\ ~outGeo.exists /\ exitStatus # 0

\* C14: when integration runs again after a pass in which tax processing
\* came before integration (some record carries an income), every region
\* keeps the avg_income the earlier pass gave it: nothing an earlier run
\* wrote changes the result on the same raw inputs.
C14_SecondPassSameIncome ==
    [][(/\ IntegrateWrite
        /\ outJson.exists
        /\ \E c \in RecordCodes : Records[c].avg_income # Null)
       => \A c \in RecordCodes :
              outJson'.data[c].avg_income = Records[c].avg_income]_vars

\* C16: a run that starts without the night-light score file ends with a
\* nonzero exit status, computes nothing and leaves both artifacts alone.
C16_MissingNightLightFatal ==
    [][(~nlFile.exists /\ Integrate)
       => /\ exitStatus' # 0
          /\ outJson' = outJson /\ outGeo' = outGeo
          /\ matrixX' = matrixX /\ validCodes' = validCodes
          /\ weights_normalized' = weights_normalized]_vars

\* A run has ended with status 1 on a directory without the night-light
\* file, and no artifact exists.
C16_Witness ==
    ~nlFile.exists /\ exitStatus = 1 /\ ~outJson.exists /\ ~outGeo.exists

\* C17: in the matrix of a run, the row of a region has no entry for an
\* optional layer (population, POI, land price) the region has no value
\* in: the absent layer is left out instead of standing in the row as an
\* observed number.
C17_AbsentLayerOmitted ==
    matrixX # <<>> =>
        \A i \in DOMAIN matrixX :
            /\ validCodes[i] \notin Keys(popFile) => matrixX[i][2] = Null
            /\ validCodes[i] \notin Keys(poiFile) => matrixX[i][3] = Null
            /\ validCodes[i] \notin Keys(lpFile)  => matrixX[i][4] = Null

-----------------------------------------------------------------------------
(* Properties of the code-field machine (SpecSchema).                      *)

\* C15: a stage that finds none of the candidate field names among the
\* columns of the polygon collection ends with a nonzero exit status and
\* has written no output.
C15_MissingCodeFieldFatal ==
    (outcome # <<>> /\ CodeCol(gdfColumns) = "none")
        => outcome.exit # 0 /\ outcome.wrote = {}

-----------------------------------------------------------------------------
(* More properties of the normalizer machine (SpecNorm).                   *)

\* C18: when all raw values of a layer are equal, a single-region layer
\* included, every normalized score is 0.
C18_NoSpreadAllZero ==
    (normalized # <<>> /\ Cardinality(Range(raw)) = 1)
        => \A i \in DOMAIN normalized : normalized[i] = 0

\* A layer of several regions, all with the raw value 1.0, was scored.
C18_Witness ==
    /\ normalized # <<>>
    /\ Len(raw) >= 2
    /\ \A i \in DOMAIN raw : raw[i] = 2000
    /\ \A i \in DOMAIN normalized : normalized[i] = 0

-----------------------------------------------------------------------------
(* Properties of the weather machine (SpecWeather).                        *)

\* The stations of the readings table that take part in the join: not
\* excluded, and with coordinates in the lookup.
JoinedStations ==
    {r \in Range(weather_df) :
        /\ r.station_name \notin ExcludeStations
        /\ MatchCoord(name_lookup, r.station_name) # <<>>}

\* r is, of the stations of S, one at the least distance from the centroid
\* of the region c.
IsNearestOf(r, S, c) ==
    /\ r \in S
    /\ \A q \in S :
          Distance2(Centroid(c), MatchCoord(name_lookup, r.station_name))
              <= Distance2(Centroid(c), MatchCoord(name_lookup, q.station_name))

IngestedRows == metaSources[1] \o metaSources[2] \o metaSources[3]

\* C20: the coordinates kept for a station name are those of the last row
\* of that name in the whole ingestion order.
C20_LastSeenWins ==
    name_lookup # <<>> =>
        \A i \in DOMAIN IngestedRows :
            (\A j \in (i + 1)..Len(IngestedRows) :
                 IngestedRows[j].name # IngestedRows[i].name)
                => name_lookup[IngestedRows[i].name] = IngestedRows[i].coord


\* C28: per-layer normalization is order-preserving: for any two regions a
\* and b of one layer with raw(a) <= raw(b), score(a) <= score(b), also when
\* one raw value is zero or negative (replaced by the 0.001 floor) and the
\* other is a positive value below that floor.
C28_NormalizationOrderPreserving ==
    normalized # <<>> =>
        \A a, b \in DOMAIN raw :
            raw[a] <= raw[b] => normalized[a] <= normalized[b]


------------------------------------------------------------------------------
(* Properties of the ward-fallback machine (SpecFill).                     *)

\* C29: the result of the ward fallback does not depend on the order in
\* which the features are visited: for the drawn own values, every
\* permutation of the feature list leaves every code with the value the
\* run has left, although the loop fills the mapping in place.
C29_FillOrderIndependent ==
    filled.exists =>
        \A o \in IterationOrders(Range(Features)) :
            FillWards(fillOwn, FeatureList(o)) = filled.data

\* The ward 01110 was visited and filled from the city before the ward 01111,
\* whose first parent candidate it is.
C29_Witness ==
    /\ filled.exists
    /\ DOMAIN fillOwn = {CityAB}
    /\ \E i, j \in DOMAIN fillFeatures :
          /\ i < j
          /\ fillFeatures[i].N03_007 = CodeB
          /\ fillFeatures[j].N03_007 = CodeC
    /\ filled.data[CodeC] = fillOwn[CityAB]


------------------------------------------------------------------------------
(* Properties of the population machine (SpecPopulation).                  *)

\* The sum of the count attribute over the cells of all mesh files whose
\* centroid lies in region c.
RECURSIVE CellSum(_, _)
CellSum(files, c) ==
    IF files = <<>> THEN 0
    ELSE SumCounts(CellsIn(Head(files).cells, c)) + CellSum(Tail(files), c)

\* C22: in polygon-mesh mode the population aggregate of every region equals
\* the sum of the count attribute over all cells of all mesh files whose
\* centroid lies within the region: no such cell is left out, none is
\* counted twice.
C22_MeshAggregateIsCellSum ==
    final_agg.exists =>
        \A c \in Range(MeshRegions) :
            Get(final_agg, c, 0) = CellSum(meshFiles, c)

\* C27: a layer's value set is produced once and is read-only afterwards:
\* once population-score.json is written no later stage changes it, so the
\* population layer does not depend on the order of the earlier stages.
C27_LayerWrittenOnce ==
    [][popFile.exists => popFile' = popFile]_vars


------------------------------------------------------------------------------
(* Further properties of the pipeline machine (Spec).                      *)

\* C30: the key set of the persisted record mapping is exactly the union of
\* the key sets of the night-light, population, POI and land-price layers;
\* a code that appears only in the tax, demographics or weather data gets
\* no record.
C30_RecordKeysAreLayerUnion ==
    outJson.exists =>
        /\ RecordCodes =
              Keys(nlFile) \cup Keys(popFile) \cup Keys(poiFile) \cup Keys(lpFile)
        /\ Range(outJson.keys) = RecordCodes
        /\ Len(outJson.keys) = Cardinality(RecordCodes)

\* Integration has read a tax file that lists the city 01100 and a
\* population layer that lists a town no other layer holds: the town has a
\* record, the city has none.
C30_Witness ==
    /\ outJson.exists
    /\ \E c \in RecordCodes : Records[c].avg_income # Null
    /\ CityAB \in Keys(taxFile) /\ CityAB \notin RecordCodes
    /\ \E c \in RecordCodes :
          c \in Keys(popFile) /\ c \notin Keys(nlFile) \cup Keys(poiFile) \cup Keys(lpFile)


\* C25: every feature of the annotated polygon collection whose zero-padded
\* code has a record carries the fields of that record as properties, under
\* the same field names and with the same values, the composite urbanity
\* score included.
C25_FeatureCarriesRecord ==
    outGeo.exists =>
        \A i \in DOMAIN outGeo.features :
            Zfill5(Features[i]) \in RecordCodes =>
                \A k \in DOMAIN Records[Zfill5(Features[i])] :
                    /\ k \in DOMAIN outGeo.features[i]
                    /\ outGeo.features[i][k] = Records[Zfill5(Features[i])][k]


------------------------------------------------------------------------------
(* Properties of the tax-table machine (SpecTaxRows).                      *)

\* C24: every skip-and-continue path surfaces in a reported count: the
\* number of rows of the tax table that were skipped, silently or through a
\* caught exception, is the number the stage reports.
C24_SkipsAreCounted ==
    taxFile.exists =>
        Cardinality({i \in DOMAIN taxRows : RowOutcome(taxRows[i]) # "stored"})
            = Len(taxErrors)

\* C26: every key written to the tax-income output is a region code of five
\* digits, whatever the length and the leading zeros of the digit string in
\* the source table.
C26_KeysAreFiveDigits ==
    taxFile.exists =>
        \A k \in Keys(taxFile) :
            Len(k) = 5 /\ \A i \in DOMAIN k : k[i] \in 0..9


------------------------------------------------------------------------------
(* Properties of the point machine (SpecPoint).                            *)

\* The rows of a join that come from point i.
RowsFrom(j, i) == {k \in DOMAIN j : j[k].point = i}

\* C21: in point mode every point is assigned to at most one region: it
\* contributes to the count (POI) or the mean (land price) of no more than
\* one code, the per-region POI counts add up to no more than the number of
\* input points, and a point that no region contains contributes to none.
C21_PointInAtMostOneRegion ==
    /\ poiExit = 0 =>
          /\ \A i \in DOMAIN poiDf :
                /\ Cardinality(RowsFrom(joined, i)) <= 1
                /\ poiDf[i].place = "outside" => RowsFrom(joined, i) = {}
          /\ poi_count[CodeA] + poi_count[CodeB] + poi_count[CodeC]
                <= Len(poiDf)
    /\ lpJoined # Null =>
          \A i \in DOMAIN landFile.data :
              /\ Cardinality(RowsFrom(lpJoined.rows, i)) <= 1
              /\ landFile.data[i].place = "outside"
                    => RowsFrom(lpJoined.rows, i) = {}

\* Both stages have run on points of which one lies on the border of two
\* polygons.
C21_Witness ==
    /\ poiExit = 0 /\ joined # <<>>
    /\ \E i \in DOMAIN poiDf : poiDf[i].place = "border"
    /\ lpJoined # Null /\ lpJoined.rows # <<>>
    /\ \E i \in DOMAIN landFile.data : landFile.data[i].place = "border"

\* C23 as stated: a run that finds the cache does not parse the source and
\* takes the cache content as its sample table; a run that finds no cache
\* parses the source and writes the cache; a run after a successful run
\* finds the cache.
C23_CachePresenceDecides ==
    [][poiRuns' = poiRuns + 1 =>
          /\ poiCache.exists =>
                ~parsedSource' /\ poiDf' = poiCache.data /\ poiCache' = poiCache
          /\ ~poiCache.exists => parsedSource' /\ poiCache'.exists
          /\ poiExit = 0 => poiCache.exists]_vars

\* C23, amended: a run that finds the cache does not parse the source and
\* takes the cache content as its sample table, whatever has become of the
\* source; a run that finds no cache parses the source and writes the cache
\* when the source exists, can be read and holds a POI, and otherwise ends
\* with status 1 and writes neither the cache nor the scores; a run after a
\* successful run finds the cache.
C23_CachePresenceDecidesGivenSource ==
    [][poiRuns' = poiRuns + 1 =>
          /\ poiCache.exists =>
                ~parsedSource' /\ poiDf' = poiCache.data /\ poiCache' = poiCache
          /\ (/\ ~poiCache.exists
              /\ osmSource.kind = "pbf"
              /\ Pois(osmSource.nodes) # <<>>) =>
                /\ parsedSource'
                /\ poiDf' = Pois(osmSource.nodes)
                /\ poiCache' = File(Pois(osmSource.nodes))
          /\ (/\ ~poiCache.exists
              /\ (osmSource.kind # "pbf" \/ Pois(osmSource.nodes) = <<>>)) =>
                poiExit' = 1 /\ ~poiCache'.exists /\ poiFile' = poiFile
          /\ poiExit = 0 => poiCache.exists]_vars

\* A second run has taken its sample table from the cache the first run
\* wrote, the source having been removed in between.
C23_Witness ==
    /\ poiRuns >= 2 /\ poiExit = 0 /\ ~parsedSource
    /\ osmSource = NoSource
    /\ poiCache.exists /\ poiCache \notin PoiCaches
    /\ poiDf = poiCache.data

=============================================================================
